---- MODULE Spec2Model ----
(***************************************************************************)
(* Model of the pump/dump detection pipeline (pump_n_dump.py), of the      *)
(* value conversion (modify_transactions.py, pump_n_dump.py __main__) and  *)
(* of the chunked line splitter (split_data.py).                           *)
(***************************************************************************)
EXTENDS Integers, Sequences, FiniteSets, Bags, TLC

VARIABLES
    pc,               \* position of the modelled run
    transactions_df,  \* bag of rows [block_number, tx_token_type, tx_value_eth]
    config,           \* the detector's three parameters
    interval_sums,    \* the aggregate table, a sequence sorted by (interval, token)
    pump_intervals,   \* returned list of pump events
    dump_intervals,   \* returned list of dump events
    pump_details,     \* printed evidence, one bag of rows per pump event
    dump_details,     \* printed evidence, one bag of rows per dump event
    outcome,          \* "none" | "returned" | "IndexError" | "KeyError"
    infile,           \* split_jsonl: the input file, a sequence of lines
    pos,              \* split_jsonl: number of input lines consumed
    chunk_size,       \* split_jsonl: the byte budget
    chunk_index,      \* split_jsonl: index of the chunk file being written
    current_chunk_size, \* split_jsonl: bytes written to the current chunk
    chunks,           \* split_jsonl: chunk files, chunk index -> content (characters)
    raw_value,        \* conversion: the transaction's raw "value" field
    value,            \* conversion: modify_transactions' df["value"]
    tx_value_eth      \* conversion: pump_n_dump's df["tx_value_eth"] cell

pipeVars == <<transactions_df, config, interval_sums, pump_intervals,
              dump_intervals, pump_details, dump_details, outcome>>
splitVars == <<infile, pos, chunk_size, chunk_index, current_chunk_size, chunks>>
convVars == <<raw_value, value, tx_value_eth>>
vars == <<pc, pipeVars, splitVars, convVars>>

(***************************************************************************)
(* Bounds and input domains                                                *)
(***************************************************************************)
MaxTx == 3
MaxRows == 4
MaxInterval == 4
MaxLines == 3
MaxLineBytes == 3
MaxChunkSize == 3
MaxHexLen == 2

None == "None"
TokenSeq == <<"0xA", "0xB">>          \* addresses, in string order
Tokens == {TokenSeq[i] : i \in 1..Len(TokenSeq)}
BlockNumbers == {0, 1, 3}
ValuesEth == {100, 300, 500, 600}
LogLists == {<<>>, <<"0xA", "0xB">>, <<"0xB">>}

\* the parameters __main__ passes
MainConfig ==
    [pump_threshold_value |-> 2500, pump_threshold_interval |-> 3, interval_blocks |-> 50]

Cfg(thr, L, blocks) ==
    [pump_threshold_value |-> thr, pump_threshold_interval |-> L, interval_blocks |-> blocks]

\* parameters the caller of the whole function passes in the pipeline runs
Configs == {Cfg(100, 2, 1), Cfg(100, 2, 2), Cfg(100, 1, 1),
            Cfg(-1, 1, 2), Cfg(100, 0, 1), Cfg(100, 2, -1)}

\* parameters of the detector runs over a given aggregate table
DetectConfigs == {Cfg(thr, L, 50) : thr \in {-1, 2500, 2900}, L \in 0..3}
DetectSums == {100, 3000}

(***************************************************************************)
(* Record Normalizer                                                       *)
(***************************************************************************)
\* logs[0].get("address") if logs else None
TokenOfLogs(logs) == IF Len(logs) > 0 THEN logs[1] ELSE None

flatten_transaction_record(block_number, tx_value, logs) ==
    [block_number |-> block_number,
     tx_token_type |-> TokenOfLogs(logs),
     tx_value_eth |-> tx_value]

(***************************************************************************)
(* Interval Aggregator                                                     *)
(***************************************************************************)
whale_cap == 500

\* Python's // on a non-negative block number and a non-zero divisor
FloorDiv(a, b) == IF b > 0 THEN a \div b ELSE -((a + (-b) - 1) \div (-b))

\* interval numbers that start at 0
IntervalOfZeroBased(block_number, interval_blocks) == FloorDiv(block_number, interval_blocks)
IntervalOf(block_number, interval_blocks) == FloorDiv(block_number, interval_blocks) + 1

\* a filter that keeps the transaction whose value equals the cap
WhaleFilterInclusive(df) ==
    LET keep == {r \in DOMAIN df : r.tx_value_eth <= whale_cap}
    IN [r \in keep |-> df[r]]

\* transactions_df[transactions_df["tx_value_eth"] < whale_cap]
WhaleFilter(df) ==
    LET keep == {r \in DOMAIN df : r.tx_value_eth < whale_cap}
    IN [r \in keep |-> df[r]]

\* groupby drops the rows whose key holds a missing value (dropna=True)
GroupedRows(df) == {r \in DOMAIN df : r.tx_token_type # None}

RECURSIVE SumRows(_, _)
SumRows(S, df) ==
    IF S = {} THEN 0
    ELSE LET r == CHOOSE x \in S : TRUE
         IN df[r] * r.tx_value_eth + SumRows(S \ {r}, df)

TokenRank(t) == CHOOSE i \in 1..Len(TokenSeq) : TokenSeq[i] = t

KeyLeq(a, b) ==
    \/ a[1] < b[1]
    \/ a[1] = b[1] /\ TokenRank(a[2]) <= TokenRank(b[2])

RECURSIVE SortKeys(_)
SortKeys(S) ==
    IF S = {} THEN <<>>
    ELSE LET m == CHOOSE k \in S : \A j \in S : KeyLeq(k, j)
         IN <<m>> \o SortKeys(S \ {m})

\* groupby(["interval", "tx_token_type"])["tx_value_eth"].sum().reset_index()
Aggregate(df, interval_blocks) ==
    LET rows == GroupedRows(df)
        keyOf(r) == <<IntervalOf(r.block_number, interval_blocks), r.tx_token_type>>
        keys == SortKeys({keyOf(r) : r \in rows})
    IN [n \in 1..Len(keys) |->
          [interval |-> keys[n][1],
           tx_token_type |-> keys[n][2],
           tx_value_eth |-> SumRows({r \in rows : keyOf(r) = keys[n]}, df)]]

(***************************************************************************)
(* Pump/Dump Detector                                                      *)
(***************************************************************************)
\* interval_sums.groupby("tx_token_type"): group keys in sorted order
GroupTokens(sums) ==
    SelectSeq(TokenSeq, LAMBDA t : \E n \in 1..Len(sums) : sums[n].tx_token_type = t)

GroupOf(sums, token_type) == SelectSeq(sums, LAMBDA a : a.tx_token_type = token_type)

\* group.iloc[k]: a negative k counts from the end, anything else out of range raises
InBounds(group, k) == -Len(group) <= k /\ k < Len(group)
ILoc(group, k) == IF k >= 0 THEN group[k + 1] ELSE group[Len(group) + k + 1]

\* a loop that starts one position early
RangeStartEarly(L) == L - 1
RangeStart(L) == L
CurrentIndex(i) == i - 1
\* the aggregate a full L positions before the current one
PreviousIndexFullLookback(i, L) == i - 1 - L
PreviousIndex(i, L) == i - L

Classify(difference, thr) ==
    IF difference > thr THEN "PUMP"
    ELSE IF difference < -thr THEN "DUMP"
    ELSE "NONE"

Event(group, token_type, i, L) ==
    LET current_interval_sum == ILoc(group, CurrentIndex(i)).tx_value_eth
        previous_interval_sum == ILoc(group, PreviousIndex(i, L)).tx_value_eth
    IN [interval |-> ILoc(group, CurrentIndex(i)).interval,
        token_type |-> token_type,
        current_interval_sum |-> current_interval_sum,
        previous_interval_sum |-> previous_interval_sum,
        difference |-> current_interval_sum - previous_interval_sum]

\* for i in range(pump_threshold_interval, len(group) + 1)
RECURSIVE DetectLoop(_, _, _, _, _, _)
DetectLoop(group, token_type, i, thr, L, acc) ==
    IF acc.outcome # "returned" \/ i > Len(group) THEN acc
    ELSE IF ~InBounds(group, CurrentIndex(i)) \/ ~InBounds(group, PreviousIndex(i, L))
    THEN [acc EXCEPT !.outcome = "IndexError"]
    ELSE LET e == Event(group, token_type, i, L)
             kind == Classify(e.difference, thr)
         IN DetectLoop(group, token_type, i + 1, thr, L,
                [acc EXCEPT !.pump = IF kind = "PUMP" THEN Append(@, e) ELSE @,
                            !.dump = IF kind = "DUMP" THEN Append(@, e) ELSE @])

\* for token_type, group in grouped
RECURSIVE DetectGroups(_, _, _, _, _, _)
DetectGroups(sums, tokens, k, thr, L, acc) ==
    IF k > Len(tokens) THEN acc
    ELSE DetectGroups(sums, tokens, k + 1, thr, L,
            DetectLoop(GroupOf(sums, tokens[k]), tokens[k], RangeStart(L), thr, L, acc))

Detect(sums, thr, L) ==
    DetectGroups(sums, GroupTokens(sums), 1, thr, L,
                 [outcome |-> "returned", pump |-> <<>>, dump |-> <<>>])

(***************************************************************************)
(* Evidence Retriever                                                      *)
(***************************************************************************)
\* an evidence window one interval too long
EvidenceLowThree(interval) == interval - 3
EvidenceLow(interval) == interval - 2

\* transactions_df[(interval >= e - 2) & (interval <= e) & (tx_token_type == token)]
relevant_transactions(df, event, interval_blocks) ==
    LET keep == {r \in DOMAIN df :
                    /\ IntervalOf(r.block_number, interval_blocks) >= EvidenceLow(event.interval)
                    /\ IntervalOf(r.block_number, interval_blocks) <= event.interval
                    /\ r.tx_token_type = event.token_type}
    IN [r \in keep |-> df[r]]

Details(df, events, interval_blocks) ==
    [n \in 1..Len(events) |-> relevant_transactions(df, events[n], interval_blocks)]

\* the frame the evidence is read from: transactions_df as line 109 left it
EvidenceFrame(df) == WhaleFilter(df)

(***************************************************************************)
(* split_jsonl                                                             *)
(***************************************************************************)
Newline == "LF"
Chars == {"a", "U+00E9"}              \* a one-byte and a two-byte character
Utf8Width(c) == IF c = "U+00E9" THEN 2 ELSE 1

\* len(line.encode('utf-8'))
RECURSIVE Utf8Len(_)
Utf8Len(line) == IF line = <<>> THEN 0 ELSE Utf8Width(Head(line)) + Utf8Len(Tail(line))

\* the lines a file iteration yields: some characters and the line break
LineSet ==
    {l \in {Append(b, Newline) : b \in UNION {[1..n -> Chars] : n \in 0..(MaxLineBytes - 1)}} :
        Utf8Len(l) <= MaxLineBytes}
InputFiles == UNION {[1..n -> LineSet] : n \in 0..MaxLines}

\* "if current_chunk_size + line_size > chunk_size"
\* a chunk closed as soon as it is full
StartsNewChunkAtLimit(current, line_size, limit) == current + line_size >= limit
StartsNewChunk(current, line_size, limit) == current + line_size > limit

\* chunk_index += 1
NextChunkIndex(index) == index + 1

\* outfile.write(line): the file's content grows by the line's characters
\* a write that loses the line break
WriteToStripped(content, line) == content \o SubSeq(line, 1, Len(line) - 1)
WriteTo(content, line) == content \o line

(***************************************************************************)
(* Value conversion                                                        *)
(***************************************************************************)
HexChars == <<"0", "1", "2", "3", "4", "5", "6", "7", "8", "9", "a", "b", "c", "d", "e", "f">>
HexCharSet == {HexChars[i] : i \in 1..Len(HexChars)}
HexDigit(c) == (CHOOSE i \in 1..Len(HexChars) : HexChars[i] = c) - 1

\* int(value, 16) on the digits after "0x", most significant first
RECURSIVE HexToInt(_, _)
HexToInt(digits, acc) ==
    IF digits = <<>> THEN acc ELSE HexToInt(Tail(digits), acc * 16 + HexDigit(Head(digits)))

RECURSIVE Pow(_, _)
Pow(b, n) == IF n = 0 THEN 1 ELSE b * Pow(b, n - 1)

\* a cell holding the decimal quotient num / 10^exp, kept exact
Quot(num, exp) == [tag |-> "number", num |-> num, exp |-> exp]
\* a cell that holds no number: "unset", "NaN", or the exception raised instead
Cell(tag) == [tag |-> tag, num |-> 0, exp |-> 0]

ModifyExp == 18   \* value / 10**18
MainExp == 10     \* transactions_df["tx_value"] / 1e10

\* the raw "value" field of a transaction:
\*   hex    "0x" followed by hex digits        int    a plain number
\*   badhex "0x" followed by a non-hex digit   str    a string without "0x"
\*   null   JSON null                          missing  no "value" key
RawValues ==
    {[kind |-> "hex", digits |-> d, n |-> 0] :
        d \in UNION {[1..k -> HexCharSet] : k \in 1..MaxHexLen}}
    \cup {[kind |-> "int", digits |-> <<>>, n |-> n] : n \in 0..(Pow(16, MaxHexLen) - 1)}
    \cup {[kind |-> k, digits |-> <<>>, n |-> 0] : k \in {"badhex", "str", "null", "missing"}}

safe_eth_conversion(v) ==
    IF v.kind = "hex" THEN Quot(HexToInt(v.digits, 0), ModifyExp)
    ELSE IF v.kind = "badhex" THEN Cell("ValueError")
    ELSE IF v.kind = "int" THEN Quot(v.n, ModifyExp)
    ELSE Quot(0, 0)

\* flattened["tx_value"] = tx.get("value"), then the column divided by 1e10
main_tx_value_eth(v) ==
    IF v.kind \in {"hex", "badhex", "str"} THEN Cell("TypeError")
    ELSE IF v.kind = "int" THEN Quot(v.n, MainExp)
    ELSE Cell("NaN")

(***************************************************************************)
(* Initial states                                                          *)
(***************************************************************************)
PipeIdle ==
    /\ transactions_df = EmptyBag
    /\ config = MainConfig
    /\ interval_sums = <<>>
    /\ pump_intervals = <<>>
    /\ dump_intervals = <<>>
    /\ pump_details = <<>>
    /\ dump_details = <<>>
    /\ outcome = "none"

SplitIdle ==
    /\ infile = <<>>
    /\ pos = 0
    /\ chunk_size = 0
    /\ chunk_index = 0
    /\ current_chunk_size = 0
    /\ chunks = <<>>

ConvIdle ==
    /\ raw_value = [kind |-> "missing", digits |-> <<>>, n |-> 0]
    /\ value = Cell("unset")
    /\ tx_value_eth = Cell("unset")

Init ==
    /\ pc = "load"
    /\ PipeIdle
    /\ SplitIdle
    /\ ConvIdle

\* the aggregate tables the detector may be handed
DetectKeys == (1..MaxInterval) \X Tokens
TableOf(f) ==
    LET keys == SortKeys(DOMAIN f)
    IN [n \in 1..Len(keys) |->
          [interval |-> keys[n][1], tx_token_type |-> keys[n][2], tx_value_eth |-> f[keys[n]]]]
SumTables ==
    {TableOf(f) : f \in UNION {[K -> DetectSums] :
                      K \in {S \in SUBSET DetectKeys : Cardinality(S) <= MaxRows}}}

InitDetect ==
    /\ pc = "aggregated"
    /\ transactions_df = EmptyBag
    /\ config \in DetectConfigs
    /\ interval_sums \in SumTables
    /\ pump_intervals = <<>>
    /\ dump_intervals = <<>>
    /\ pump_details = <<>>
    /\ dump_details = <<>>
    /\ outcome = "none"
    /\ SplitIdle
    /\ ConvIdle

InitSplit ==
    /\ pc = "split"
    /\ PipeIdle
    /\ ConvIdle
    /\ infile \in InputFiles
    /\ chunk_size \in 0..MaxChunkSize
    /\ pos = 0
    /\ chunk_index = 1
    /\ current_chunk_size = 0
    /\ chunks = (1 :> <<>>)

InitConv ==
    /\ pc = "convert"
    /\ PipeIdle
    /\ SplitIdle
    /\ raw_value \in RawValues
    /\ value = Cell("unset")
    /\ tx_value_eth = Cell("unset")

(***************************************************************************)
(* Actions                                                                 *)
(***************************************************************************)
\* load_transactions_and_logs: one more line of the file becomes a row
LoadRecord ==
    /\ pc = "load"
    /\ BagCardinality(transactions_df) < MaxTx
    /\ \E block_number \in BlockNumbers, tx_value \in ValuesEth, logs \in LogLists :
          transactions_df' = transactions_df (+)
              SetToBag({flatten_transaction_record(block_number, tx_value, logs)})
    /\ UNCHANGED <<pc, config, interval_sums, pump_intervals, dump_intervals,
                   pump_details, dump_details, outcome, splitVars, convVars>>

\* detect_pump_and_dump_whale_not_included(transactions_df, thr, L, blocks)
DetectCall ==
    /\ pc = "load"
    /\ \E cfg \in Configs :
          /\ config' = cfg
          /\ IF transactions_df = EmptyBag
             THEN \* a frame built from no rows has no "block_number" column
                  /\ outcome' = "KeyError"
                  /\ UNCHANGED <<interval_sums, pump_intervals, dump_intervals,
                                 pump_details, dump_details>>
             ELSE LET frame == EvidenceFrame(transactions_df)
                      sums == Aggregate(WhaleFilter(transactions_df), cfg.interval_blocks)
                      res == Detect(sums, cfg.pump_threshold_value, cfg.pump_threshold_interval)
                      ok == res.outcome = "returned"
                  IN /\ interval_sums' = sums
                     /\ outcome' = res.outcome
                     /\ pump_intervals' = IF ok THEN res.pump ELSE <<>>
                     /\ dump_intervals' = IF ok THEN res.dump ELSE <<>>
                     /\ pump_details' =
                            IF ok THEN Details(frame, res.pump, cfg.interval_blocks) ELSE <<>>
                     /\ dump_details' =
                            IF ok THEN Details(frame, res.dump, cfg.interval_blocks) ELSE <<>>
    /\ pc' = "done"
    /\ UNCHANGED <<transactions_df, splitVars, convVars>>

\* the detector's loops over a given aggregate table
RunDetector ==
    /\ pc = "aggregated"
    /\ LET res == Detect(interval_sums, config.pump_threshold_value,
                         config.pump_threshold_interval)
           ok == res.outcome = "returned"
       IN /\ outcome' = res.outcome
          /\ pump_intervals' = IF ok THEN res.pump ELSE <<>>
          /\ dump_intervals' = IF ok THEN res.dump ELSE <<>>
    /\ pc' = "done"
    /\ UNCHANGED <<transactions_df, config, interval_sums, pump_details, dump_details,
                   splitVars, convVars>>

\* split_jsonl: one iteration of "for line in infile"
SplitLine ==
    /\ pc = "split"
    /\ pos < Len(infile)
    /\ LET line == infile[pos + 1]
           line_size == Utf8Len(line)
       IN IF StartsNewChunk(current_chunk_size, line_size, chunk_size)
          THEN /\ chunk_index' = NextChunkIndex(chunk_index)
               /\ chunks' = (NextChunkIndex(chunk_index) :> WriteTo(<<>>, line)) @@ chunks
               /\ current_chunk_size' = 0 + line_size
          ELSE /\ chunk_index' = chunk_index
               /\ chunks' = [chunks EXCEPT ![chunk_index] = WriteTo(@, line)]
               /\ current_chunk_size' = current_chunk_size + line_size
    /\ pos' = pos + 1
    /\ UNCHANGED <<pc, infile, chunk_size, pipeVars, convVars>>

\* split_jsonl: the input is exhausted, the last chunk is closed
SplitClose ==
    /\ pc = "split"
    /\ pos = Len(infile)
    /\ pc' = "split_done"
    /\ UNCHANGED <<splitVars, pipeVars, convVars>>

\* modify_transactions: df["value"] = safe_eth_conversion(tx.get("value", "0"))
ConvertModify ==
    /\ pc = "convert"
    /\ value = Cell("unset")
    /\ value' = safe_eth_conversion(raw_value)
    /\ UNCHANGED <<pc, raw_value, tx_value_eth, pipeVars, splitVars>>

\* pump_n_dump __main__: transactions_df["tx_value_eth"] = transactions_df["tx_value"] / 1e10
ConvertMain ==
    /\ pc = "convert"
    /\ tx_value_eth = Cell("unset")
    /\ tx_value_eth' = main_tx_value_eth(raw_value)
    /\ UNCHANGED <<pc, raw_value, value, pipeVars, splitVars>>

Next == LoadRecord \/ DetectCall
Spec == Init /\ [][Next]_vars

NextDetect == RunDetector
SpecDetect == InitDetect /\ [][NextDetect]_vars

NextSplit == SplitLine \/ SplitClose
SpecSplit == InitSplit /\ [][NextSplit]_vars

NextConv == ConvertModify \/ ConvertMain
SpecConv == InitConv /\ [][NextConv]_vars

(***************************************************************************)
(* Properties of the detector (checked under SpecDetect)                   *)
(***************************************************************************)
Done == pc = "done"
Thr == config.pump_threshold_value
Lookback == config.pump_threshold_interval

\* a token's partition of the aggregate table, positions 1..N
Partition(t) == SelectSeq(interval_sums, LAMBDA a : a.tx_token_type = t)
Sums(t) == [n \in 1..Len(Partition(t)) |-> Partition(t)[n].tx_value_eth]

SeqToSet(q) == {q[n] : n \in 1..Len(q)}
Events == SeqToSet(pump_intervals) \cup SeqToSet(dump_intervals)
EventsOf(t) == {e \in Events : e.token_type = t}
CountOf(q, t) == Cardinality({n \in 1..Len(q) : q[n].token_type = t})

\* the event the claim describes at position i when the compared aggregate is at position j
ExpectedEvent(t, i, j) ==
    [interval |-> Partition(t)[i].interval,
     token_type |-> t,
     current_interval_sum |-> Sums(t)[i],
     previous_interval_sum |-> Sums(t)[j],
     difference |-> Sums(t)[i] - Sums(t)[j]]

Exceeds(d) == d > Thr \/ d < -Thr

OnlyTokenA == \A n \in 1..Len(interval_sums) : interval_sums[n].tx_token_type = "0xA"
ExampleConfig == Thr = 2500 /\ Lookback = 3
DumpExample == OnlyTokenA /\ Sums("0xA") = <<3000, 100, 100, 100>> /\ ExampleConfig
PumpExample == OnlyTokenA /\ Sums("0xA") = <<100, 100, 100, 3000>> /\ ExampleConfig

\* C1 (as stated): every event of a token compares position i in L..N with the
\* aggregate exactly L positions earlier and carries position i's interval; with
\* lookback 3, threshold 2500 the sums [3000,100,100,100] give exactly one DUMP at
\* position 4 with difference -2900, and [100,100,100,3000] exactly one PUMP at
\* position 4 with difference 2900.  Stated for non-negative thresholds only, so
\* that a violation never rests on a threshold the configuration surface excludes.
C1_LookbackByFullDistance ==
    (Done /\ Lookback >= 1 /\ Thr >= 0) =>
        /\ \A t \in Tokens : \A e \in EventsOf(t) :
              \E i \in Lookback..Len(Partition(t)) :
                  /\ i - Lookback >= 1
                  /\ e = ExpectedEvent(t, i, i - Lookback)
        /\ DumpExample =>
              /\ pump_intervals = <<>>
              /\ Len(dump_intervals) = 1
              /\ dump_intervals[1].interval = Partition("0xA")[4].interval
              /\ dump_intervals[1].difference = -2900
        /\ PumpExample =>
              /\ dump_intervals = <<>>
              /\ Len(pump_intervals) = 1
              /\ pump_intervals[1].interval = Partition("0xA")[4].interval
              /\ pump_intervals[1].difference = 2900

\* C1 (amended): for lookback L >= 1 the run returns, and for every token and every
\* position i in L..N the detector compares sum[i] with sum[i - L + 1], the aggregate
\* L - 1 positions earlier among the token's present intervals; an event is emitted
\* at position i exactly when that difference is beyond the threshold, and it
\* carries position i's interval.  [3000,100,100,100] gives exactly one DUMP, at
\* position 3, with difference -2900; [100,100,100,3000] exactly one PUMP, at
\* position 4, with difference 2900.
C1_LookbackWindowOfL ==
    (Done /\ Lookback >= 1) =>
        /\ outcome = "returned"
        /\ \A t \in Tokens :
              LET hits == {i \in Lookback..Len(Partition(t)) :
                              Exceeds(Sums(t)[i] - Sums(t)[i - Lookback + 1])}
              IN /\ EventsOf(t) = {ExpectedEvent(t, i, i - Lookback + 1) : i \in hits}
                 /\ CountOf(pump_intervals, t) + CountOf(dump_intervals, t) = Cardinality(hits)
        /\ DumpExample =>
              /\ pump_intervals = <<>>
              /\ Len(dump_intervals) = 1
              /\ dump_intervals[1].interval = Partition("0xA")[3].interval
              /\ dump_intervals[1].difference = -2900
        /\ PumpExample =>
              /\ dump_intervals = <<>>
              /\ Len(pump_intervals) = 1
              /\ pump_intervals[1].interval = Partition("0xA")[4].interval
              /\ pump_intervals[1].difference = 2900

\* C1 witness: the dump example has run and reported its one event
C1_Witness == Done /\ DumpExample /\ Len(dump_intervals) = 1

\* the positions the loop evaluates, and the difference it computes there
Evaluated(t) == Lookback..Len(Partition(t))
DifferenceAt(t, i) == Sums(t)[i] - Sums(t)[i - Lookback + 1]
PumpAt(t, i) ==
    \E n \in 1..Len(pump_intervals) :
        pump_intervals[n].token_type = t /\ pump_intervals[n].interval = Partition(t)[i].interval
DumpAt(t, i) ==
    \E n \in 1..Len(dump_intervals) :
        dump_intervals[n].token_type = t /\ dump_intervals[n].interval = Partition(t)[i].interval
Abs(d) == IF d < 0 THEN -d ELSE d

\* C2: at every evaluated position a PUMP is emitted iff difference > threshold and
\* a DUMP iff difference < -threshold; every event has difference = current -
\* previous and |difference| > threshold; no (token, interval) is both pump and dump.
C2_StrictThresholdClassification ==
    (Done /\ Lookback >= 1) =>
        /\ \A t \in Tokens : \A i \in Evaluated(t) :
              /\ PumpAt(t, i) <=> DifferenceAt(t, i) > Thr
              /\ DumpAt(t, i) <=> DifferenceAt(t, i) < -Thr
              /\ ~(PumpAt(t, i) /\ DumpAt(t, i))
        /\ \A e \in Events :
              /\ e.difference = e.current_interval_sum - e.previous_interval_sum
              /\ Abs(e.difference) > Thr

\* the same classification for the thresholds the configuration surface allows
ClassificationForValidThreshold == Thr >= 0 => C2_StrictThresholdClassification

\* C7: for lookback L >= 1 the run returns without error; a token with fewer than L
\* aggregates has no pump and no dump event, and the events are those of the run on
\* the table without that token's rows.
C7_ShortPartitionYieldsNothing ==
    (Done /\ Lookback >= 1) =>
        /\ outcome = "returned"
        /\ \A t \in Tokens :
              Len(Partition(t)) < Lookback =>
                  /\ EventsOf(t) = {}
                  /\ LET rest == SelectSeq(interval_sums, LAMBDA a : a.tx_token_type # t)
                         alone == Detect(rest, Thr, Lookback)
                     IN pump_intervals = alone.pump /\ dump_intervals = alone.dump

\* C7 witness: a token with too few aggregates beside a token that has events
C7_Witness ==
    /\ Done
    /\ Lookback = 3
    /\ Len(Partition("0xA")) \in 1..2
    /\ EventsOf("0xA") = {}
    /\ EventsOf("0xB") # {}

(***************************************************************************)
(* Properties of the whole detector call (checked under Spec)              *)
(***************************************************************************)
InvalidConfiguration ==
    \/ config.interval_blocks <= 0
    \/ config.pump_threshold_interval < 1
    \/ config.pump_threshold_value < 0

ValidConfiguration == ~InvalidConfiguration

\* the aggregate table has been computed (the call got past its first line)
Aggregated == Done /\ outcome # "KeyError"

Rows == DOMAIN transactions_df
MaxBlock == CHOOSE b \in BlockNumbers : \A c \in BlockNumbers : c <= b

\* floor(b / d) by its defining inequalities
Floor(b, d) ==
    CHOOSE q \in (-MaxBlock - 1)..(MaxBlock + 1) :
        IF d > 0 THEN q * d <= b /\ b < (q + 1) * d
                 ELSE q * d >= b /\ b > (q + 1) * d

interval_id(r) == Floor(r.block_number, config.interval_blocks) + 1

RECURSIVE TotalEth(_)
TotalEth(S) ==
    IF S = {} THEN 0
    ELSE LET r == CHOOSE x \in S : TRUE
         IN transactions_df[r] * r.tx_value_eth + TotalEth(S \ {r})

\* the transactions with a key whose value is below a cap
Below(cap, iv, tok) ==
    {r \in Rows : r.tx_value_eth < cap /\ interval_id(r) = iv /\ r.tx_token_type = tok}
AggregatesAt(iv, tok) ==
    {n \in 1..Len(interval_sums) :
        interval_sums[n].interval = iv /\ interval_sums[n].tx_token_type = tok}

\* key (iv, tok) has exactly one aggregate, and it sums the transactions below cap
OneAggregate(cap, iv, tok) ==
    /\ Cardinality(AggregatesAt(iv, tok)) = 1
    /\ \A n \in AggregatesAt(iv, tok) :
          interval_sums[n].tx_value_eth = TotalEth(Below(cap, iv, tok))

\* C3 (as stated): every non-whale transaction, its token_type an address or null,
\* has exactly one aggregate for its key (floor(block / blocks_per_interval) + 1,
\* token_type), whose value is the sum over the non-whale transactions of that key.
\* Stated for valid configurations only.
C3_EveryKeyAggregated ==
    (Aggregated /\ ValidConfiguration) =>
        \A r \in Rows :
            r.tx_value_eth < whale_cap =>
                OneAggregate(whale_cap, interval_id(r), r.tx_token_type)

\* C3 (amended): every non-whale transaction whose token_type is an address has
\* exactly one aggregate for its key, summing the non-whale transactions of that
\* key; every aggregate has such a transaction; transactions whose token_type is
\* null are left out: no aggregate carries a null token_type.
C3_AddressKeysAggregated ==
    Aggregated =>
        /\ \A r \in Rows :
              (r.tx_value_eth < whale_cap /\ r.tx_token_type # None) =>
                  OneAggregate(whale_cap, interval_id(r), r.tx_token_type)
        /\ \A n \in 1..Len(interval_sums) :
              /\ interval_sums[n].tx_token_type \in Tokens
              /\ Below(whale_cap, interval_sums[n].interval,
                       interval_sums[n].tx_token_type) # {}

\* C3 witness: an aggregate that sums two transactions, beside a non-whale
\* transaction without logs
C3_Witness ==
    /\ Aggregated
    /\ \E n \in 1..Len(interval_sums) :
          interval_sums[n].tx_value_eth = 400
    /\ \E r \in Rows : r.tx_token_type = None /\ r.tx_value_eth < whale_cap

\* whale caps a caller may want to supply
WhaleCapChoices == {whale_cap, 600}

\* the aggregates are those of the transactions strictly below cap
FilteredAt(cap) ==
    /\ \A r \in Rows :
          (r.tx_value_eth < cap /\ r.tx_token_type # None) =>
              OneAggregate(cap, interval_id(r), r.tx_token_type)
    /\ \A n \in 1..Len(interval_sums) :
          interval_sums[n].tx_value_eth =
              TotalEth(Below(cap, interval_sums[n].interval, interval_sums[n].tx_token_type))

\* C4 (as stated): whatever whale_cap the caller supplies, a transaction at or above
\* it contributes 0 to every aggregate and one strictly below it is included.
\* Stated for transactions that have a token_type, so that a violation never rests
\* on the rows that grouping leaves out, and for valid configurations only.
C4_CallerSuppliedWhaleCap ==
    (Aggregated /\ ValidConfiguration) => \A cap \in WhaleCapChoices : FilteredAt(cap)

\* C4 (amended): the whale cap is the fixed 500 of the detector, not caller-supplied;
\* for every threshold, a transaction with value_eth >= 500 contributes 0 to every
\* aggregate and one with value_eth < 500 and a token_type is included.
C4_FixedWhaleCap == Aggregated => FilteredAt(whale_cap)

\* C4 witness: a transaction at the cap and a smaller one share a key that has an aggregate
C4_Witness ==
    /\ Aggregated
    /\ \E r \in Rows, w \in Rows :
          /\ r.tx_value_eth < whale_cap
          /\ w.tx_value_eth = whale_cap
          /\ r.tx_token_type = w.tx_token_type
          /\ interval_id(r) = interval_id(w)
          /\ AggregatesAt(interval_id(r), r.tx_token_type) # {}

\* the transactions below cap with the event's token_type in [interval - 2, interval]
Supporting(cap, e) ==
    LET keep == {r \in Rows :
                    /\ r.tx_value_eth < cap
                    /\ r.tx_token_type = e.token_type
                    /\ interval_id(r) >= e.interval - 2
                    /\ interval_id(r) <= e.interval}
    IN [r \in keep |-> transactions_df[r]]

EvidenceIs(cap) ==
    /\ Len(pump_details) = Len(pump_intervals)
    /\ Len(dump_details) = Len(dump_intervals)
    /\ \A n \in 1..Len(pump_intervals) : pump_details[n] = Supporting(cap, pump_intervals[n])
    /\ \A n \in 1..Len(dump_intervals) : dump_details[n] = Supporting(cap, dump_intervals[n])

\* a cap above every value: no transaction is a whale
NoCap == 1 + CHOOSE v \in ValuesEth : \A u \in ValuesEth : u <= v

\* C5 (as stated): the supporting set of every event is all transactions, whales
\* included, with the event's token_type and interval in [interval - 2, interval].
\* Stated for valid configurations only.
C5_EvidenceFromAllTransactions ==
    (Done /\ outcome = "returned" /\ ValidConfiguration) => EvidenceIs(NoCap)

\* C5 (amended): the supporting set of every event is all non-whale transactions
\* (value_eth < 500) with the event's token_type and interval in
\* [interval - 2, interval], whatever the lookback; whales are excluded from it.
C5_EvidenceFromNonWhales == (Done /\ outcome = "returned") => EvidenceIs(whale_cap)

\* C5 witness: an event whose window holds a whale of its token
C5_Witness ==
    /\ Done
    /\ ValidConfiguration
    /\ \E e \in Events : \E w \in Rows :
          /\ w.tx_value_eth >= whale_cap
          /\ w.tx_token_type = e.token_type
          /\ interval_id(w) >= e.interval - 2
          /\ interval_id(w) <= e.interval

\* C6: a call with blocks_per_interval <= 0, lookback < 1 or a negative threshold
\* fails with InvalidConfigurationError and emits no event.
C6_InvalidConfigurationRejected ==
    (Done /\ transactions_df # EmptyBag /\ InvalidConfiguration) =>
        /\ outcome = "InvalidConfigurationError"
        /\ pump_intervals = <<>>
        /\ dump_intervals = <<>>

(***************************************************************************)
(* Properties of the value conversion (checked under SpecConv)             *)
(***************************************************************************)
Converted == value.tag # "unset" /\ tx_value_eth.tag # "unset"

\* the digits' value, by place
PlaceValue(digits) ==
    LET RECURSIVE Place(_)
        Place(k) == IF k > Len(digits) THEN 0
                    ELSE HexDigit(digits[k]) * Pow(16, Len(digits) - k) + Place(k + 1)
    IN Place(1)

\* the value_wei the claim gives each shape of value
value_wei ==
    IF raw_value.kind = "hex" THEN PlaceValue(raw_value.digits)
    ELSE IF raw_value.kind = "int" THEN raw_value.n
    ELSE 0

\* a quotient with the powers of ten cancelled
RECURSIVE Reduced(_)
Reduced(q) ==
    IF q.num = 0 THEN Quot(0, 0)
    ELSE IF q.num % 10 = 0 THEN Reduced(Quot(q.num \div 10, q.exp - 1))
    ELSE q
IsQuotient(cell, num, exp) == cell.tag = "number" /\ Reduced(cell) = Reduced(Quot(num, exp))

\* C8: a value given as a plain number resolves to value_wei without raising, and
\* the value_eth the aggregator and detector consume equals value_wei / 10^18.
\* Stated for plain numbers, the shape both conversions accept.
C8_ValueEthIsWeiOver1e18 ==
    (Converted /\ raw_value.kind = "int") =>
        /\ IsQuotient(value, value_wei, 18)
        /\ IsQuotient(tx_value_eth, value_wei, 18)

\* safe_eth_conversion alone: hex and number agree, other shapes give 0, except
\* that a "0x" string with a non-hex digit raises
SafeConversionAgrees ==
    (value.tag # "unset" /\ raw_value.kind # "badhex") =>
        IF raw_value.kind \in {"hex", "int"} THEN IsQuotient(value, value_wei, 18)
        ELSE IsQuotient(value, 0, 0)

(***************************************************************************)
(* Properties of split_jsonl (checked under SpecSplit)                     *)
(***************************************************************************)
RECURSIVE FlattenLines(_)
FlattenLines(lines) ==
    IF lines = <<>> THEN <<>> ELSE Head(lines) \o FlattenLines(Tail(lines))

\* the chunk files 1..k read one after the other
RECURSIVE ChunksUpTo(_)
ChunksUpTo(k) == IF k = 0 THEN <<>> ELSE ChunksUpTo(k - 1) \o chunks[k]

LineCount(content) == Cardinality({n \in 1..Len(content) : content[n] = Newline})

\* C9: the chunk files are numbered 1, 2, ... without a gap; each holds a run of
\* whole consecutive input lines; read in index order they are the input lines
\* consumed so far, and the whole input once the split has finished.
C9_ChunksPartitionTheInput ==
    pc \in {"split", "split_done"} =>
        /\ DOMAIN chunks = 1..chunk_index
        /\ \A j \in DOMAIN chunks :
              \E a \in 0..pos : \E b \in a..pos :
                  chunks[j] = FlattenLines(SubSeq(infile, a + 1, b))
        /\ ChunksUpTo(chunk_index) = FlattenLines(SubSeq(infile, 1, pos))
        /\ pc = "split_done" => ChunksUpTo(chunk_index) = FlattenLines(infile)

\* C9 witness: a finished split of three lines into more than one chunk
C9_Witness == pc = "split_done" /\ Len(infile) = 3 /\ chunk_index >= 2

WithinBudget(content) ==
    \/ Utf8Len(content) <= chunk_size
    \/ LineCount(content) = 1 /\ Utf8Len(content) > chunk_size

\* C10: at every moment each chunk file holds at most chunk_size bytes unless it
\* holds exactly one line that is itself larger than chunk_size; and a new chunk is
\* started only when the next line would take the current chunk over chunk_size.
C10_ByteBudget ==
    /\ [](pc \in {"split", "split_done"} => \A j \in DOMAIN chunks : WithinBudget(chunks[j]))
    /\ [][chunk_index' # chunk_index =>
              current_chunk_size + Utf8Len(infile[pos + 1]) > chunk_size]_vars

\* C10 witness: a chunk of one oversized line beside a chunk of two lines within budget
C10_Witness ==
    /\ pc = "split_done"
    /\ \E j \in DOMAIN chunks : LineCount(chunks[j]) = 1 /\ Utf8Len(chunks[j]) > chunk_size
    /\ \E j \in DOMAIN chunks : LineCount(chunks[j]) = 2 /\ Utf8Len(chunks[j]) <= chunk_size

====
